---- MODULE Spec2Model ----
(***************************************************************************)
(* Code 128 (Code Set B) encoder / SVG renderer and the horizontal margin  *)
(* trimming of rasterised barcodes, as state machines over the calls of    *)
(* the program.  Strings are sequences of UTF-16 code units (what          *)
(* charCodeAt reads); byte buffers are sequences of bytes, index 0 of the  *)
(* program being element 1 of the sequence.                                *)
(***************************************************************************)
EXTENDS Integers, Sequences, FiniteSets, TLC

VARIABLES
  pc,        \* position of the running call
  text,      \* argument of encodeCode128BToModules / renderCode128BToSvg
  options,   \* Code128RenderOptions after defaulting
  error,     \* the Error thrown, or NoError
  codes,     \* result of computeCodesForSetB
  modules,   \* result of codesToModules
  x,         \* renderCode128BToSvg: the cursor of the bar walk
  svg,       \* the markup returned by renderCode128BToSvg
  call,      \* which entry point of the trim pipeline the caller uses
  img,       \* the caller's image: [buffer, width, height]
  scanOpts,  \* options of computeHorizontalBounds after defaulting
  cropArgs,  \* [left, right] handed to cropHorizontalBuffer
  bounds,    \* result of computeHorizontalBounds on img
  cropped,   \* result of cropHorizontalBuffer on img
  srcView,   \* bytes of the source buffer once cropHorizontalBuffer returned
  bounds2,   \* result of computeHorizontalBounds on cropped
  cropped2,  \* result of cropHorizontalBuffer on cropped
  synth,     \* arguments of createSyntheticBarcodePixelMap
  option,    \* the option argument of dealWithCodel128
  pixelMap,  \* the PixelMap handed to dealWithCodel128
  processed, \* the PixelMap dealWithCodel128 returned
  outcome,   \* how runSelfTest ended
  impl,      \* which dealWithCodel128 is called: ./trim or src/harmony
  env,       \* the host of the ArkTS dealWithCodel128
  pixelReads, \* readPixelsToBuffer calls made by dealWithCodel128
  detected,  \* the bounds dealWithCodel128 found, None when it did not scan
  sLeft,     \* computeHorizontalBounds step by step: let left
  sRight,    \* let right
  sY,        \* let y of the row loop
  sHits      \* let hits of the row loop

encVars == <<text, options, error, codes, modules, x, svg>>
trimVars == <<call, img, scanOpts, cropArgs, bounds, cropped, srcView, bounds2, cropped2>>
selfVars == <<synth, option, pixelMap, processed, outcome, impl, env, pixelReads, detected>>
stepVars == <<sLeft, sRight, sY, sHits>>
vars == <<pc, encVars, trimVars, selfVars, stepVars>>

----------------------------------------------------------------------------
(* Bounds of the model *)

MaxLen == 3
MaxModuleWidth == 2
MaxQuietZone == 1

\* code units the input texts are drawn from: both ends of 32..126, the
\* values right outside it, an ampersand, and a UTF-16 surrogate
Chars == {31, 32, 38, 126, 127, 55357}

RECURSIVE SeqsUpTo(_, _)
SeqsUpTo(S, n) ==
  IF n = 0 THEN {<< >>}
  ELSE LET shorter == SeqsUpTo(S, n - 1)
       IN shorter \cup {Append(s, c) : s \in {t \in shorter : Len(t) = n - 1}, c \in S}

Texts == SeqsUpTo(Chars, MaxLen)

----------------------------------------------------------------------------
(* part_000: the encoder *)

CODE128_PATTERNS == <<
     <<"2","1","2","2","2","2">>, <<"2","2","2","1","2","2">>, <<"2","2","2","2","2","1">>, <<"1","2","1","2","2","3">>, <<"1","2","1","3","2","2">>,
     <<"1","3","1","2","2","2">>, <<"1","2","2","2","1","3">>, <<"1","2","2","3","1","2">>, <<"1","3","2","2","1","2">>, <<"2","2","1","2","1","3">>,
     <<"2","2","1","3","1","2">>, <<"2","3","1","2","1","2">>, <<"1","1","2","2","3","2">>, <<"1","2","2","1","3","2">>, <<"1","2","2","2","3","1">>,
     <<"1","1","3","2","2","2">>, <<"1","2","3","1","2","2">>, <<"1","2","3","2","2","1">>, <<"2","2","3","2","1","1">>, <<"2","2","1","1","3","2">>,
     <<"2","2","1","2","3","1">>, <<"2","1","3","2","1","2">>, <<"2","2","3","1","1","2">>, <<"3","1","2","1","3","1">>, <<"3","1","1","2","2","2">>,
     <<"3","2","1","1","2","2">>, <<"3","2","1","2","2","1">>, <<"3","1","2","2","1","2">>, <<"3","2","2","1","1","2">>, <<"3","2","2","2","1","1">>,
     <<"2","1","2","1","2","3">>, <<"2","1","2","3","2","1">>, <<"2","3","2","1","2","1">>, <<"1","1","1","3","2","3">>, <<"1","3","1","1","2","3">>,
     <<"1","3","1","3","2","1">>, <<"1","1","2","3","1","3">>, <<"1","3","2","1","1","3">>, <<"1","3","2","3","1","1">>, <<"2","1","1","3","1","3">>,
     <<"2","3","1","1","1","3">>, <<"2","3","1","3","1","1">>, <<"1","1","2","1","3","3">>, <<"1","1","2","3","3","1">>, <<"1","3","2","1","3","1">>,
     <<"1","1","3","1","2","3">>, <<"1","1","3","3","2","1">>, <<"1","3","3","1","2","1">>, <<"3","1","3","1","2","1">>, <<"2","1","1","3","3","1">>,
     <<"2","3","1","1","3","1">>, <<"2","1","3","1","1","3">>, <<"2","1","3","3","1","1">>, <<"2","1","3","1","3","1">>, <<"3","1","1","1","2","3">>,
     <<"3","1","1","3","2","1">>, <<"3","3","1","1","2","1">>, <<"3","1","2","1","1","3">>, <<"3","1","2","3","1","1">>, <<"3","3","2","1","1","1">>,
     <<"3","1","4","1","1","1">>, <<"2","2","1","4","1","1">>, <<"4","3","1","1","1","1">>, <<"1","1","1","2","2","4">>, <<"1","1","1","4","2","2">>,
     <<"1","2","1","1","2","4">>, <<"1","2","1","4","2","1">>, <<"1","4","1","1","2","2">>, <<"1","4","1","2","2","1">>, <<"1","1","2","2","1","4">>,
     <<"1","1","2","4","1","2">>, <<"1","2","2","1","1","4">>, <<"1","2","2","4","1","1">>, <<"1","4","2","1","1","2">>, <<"1","4","2","2","1","1">>,
     <<"2","4","1","2","1","1">>, <<"2","2","1","1","1","4">>, <<"4","1","3","1","1","1">>, <<"2","4","1","1","1","2">>, <<"1","3","4","1","1","1">>,
     <<"1","1","1","2","4","2">>, <<"1","2","1","1","4","2">>, <<"1","2","1","2","4","1">>, <<"1","1","4","2","1","2">>, <<"1","2","4","1","1","2">>,
     <<"1","2","4","2","1","1">>, <<"4","1","1","2","1","2">>, <<"4","2","1","1","1","2">>, <<"4","2","1","2","1","1">>, <<"2","1","2","1","4","1">>,
     <<"2","1","4","1","2","1">>, <<"4","1","2","1","2","1">>, <<"1","1","1","1","4","3">>, <<"1","1","1","3","4","1">>, <<"1","3","1","1","4","1">>,
     <<"1","1","4","1","1","3">>, <<"1","1","4","3","1","1">>, <<"4","1","1","1","1","3">>, <<"4","1","1","3","1","1">>, <<"1","1","3","1","4","1">>,
     <<"1","1","4","1","3","1">>, <<"3","1","1","1","4","1">>, <<"4","1","1","1","3","1">>, <<"2","1","1","4","1","2">>, <<"2","1","1","2","1","4">>,
     <<"2","1","1","2","3","2">>, <<"2","3","3","1","1","1","2">>
  >>

START_CODE_B == 104
STOP_CODE == 106

NoError == [kind |-> "none"]
None == [kind |-> "none"]

StepIdle == sLeft = 0 /\ sRight = 0 /\ sY = 0 /\ sHits = 0

TrimIdle ==
  /\ call = "none" /\ img = None /\ scanOpts = None /\ cropArgs = None
  /\ bounds = None /\ cropped = None /\ srcView = << >>
  /\ bounds2 = None /\ cropped2 = None

SelfTestIdle ==
  /\ synth = None /\ option = None /\ pixelMap = None /\ processed = None
  /\ outcome = "none" /\ impl = "none" /\ env = None /\ pixelReads = 0 /\ detected = None

\* String.prototype.charCodeAt, i counted from 0
charCodeAt(t, i) == t[i + 1]

HexDigits == <<"0","1","2","3","4","5","6","7","8","9","A","B","C","D","E","F">>
DecDigits == <<"0","1","2","3","4","5","6","7","8","9">>

\* Number.prototype.toString(16).toUpperCase() of a non-negative integer
RECURSIVE toString16Upper(_)
toString16Upper(n) ==
  IF n < 16 THEN <<HexDigits[n + 1]>>
  ELSE toString16Upper(n \div 16) \o <<HexDigits[(n % 16) + 1]>>

\* template-literal formatting `${n}` of a non-negative integer
RECURSIVE toString10(_)
toString10(n) ==
  IF n < 10 THEN <<DecDigits[n + 1]>>
  ELSE toString10(n \div 10) \o <<DecDigits[(n % 10) + 1]>>

\* Number(c) of a one-character digit string
Number(c) == CHOOSE d \in 0..9 : DecDigits[d + 1] = c

\* JavaScript's % : the result takes the sign of the dividend
JsRem(a, b) == IF a >= 0 THEN a % b ELSE -((-a) % b)

RECURSIVE assertLoop(_, _)
assertLoop(t, i) ==
  IF i >= Len(t) THEN NoError
  ELSE LET code == charCodeAt(t, i)
       IN IF code < 32 \/ code > 126
          THEN [kind |-> "UnsupportedCharacter", index |-> toString10(i),
                codePoint |-> toString16Upper(code)]
          ELSE assertLoop(t, i + 1)

\* a validator whose upper limit is off by one
RECURSIVE assertLoopUpTo127(_, _)
assertLoopUpTo127(t, i) ==
  IF i >= Len(t) THEN NoError
  ELSE LET code == charCodeAt(t, i)
       IN IF code < 32 \/ code > 127
          THEN [kind |-> "UnsupportedCharacter", index |-> toString10(i),
                codePoint |-> toString16Upper(code)]
          ELSE assertLoopUpTo127(t, i + 1)

assertCodeSetBCompatibleUpTo127(t) == assertLoopUpTo127(t, 0)

assertCodeSetBCompatible(t) == assertLoop(t, 0)

RECURSIVE pushCodeValues(_, _, _)
pushCodeValues(t, i, acc) ==
  IF i >= Len(t) THEN acc
  ELSE pushCodeValues(t, i + 1, Append(acc, charCodeAt(t, i) - 32))

RECURSIVE checksumLoop(_, _, _)
checksumLoop(t, i, checksum) ==
  IF i >= Len(t) THEN checksum
  ELSE checksumLoop(t, i + 1, checksum + (charCodeAt(t, i) - 32) * (i + 1))

\* a checksum that forgets the start code
checksumOfNoStart(t) == JsRem(checksumLoop(t, 0, 0), 103)

checksumOf(t) == JsRem(checksumLoop(t, 0, START_CODE_B), 103)

computeCodesForSetB(t) ==
  Append(Append(pushCodeValues(t, 0, <<START_CODE_B>>), checksumOf(t)), STOP_CODE)

RECURSIVE pushPattern(_, _, _)
pushPattern(pattern, i, acc) ==
  IF i >= Len(pattern) THEN acc
  ELSE pushPattern(pattern, i + 1, Append(acc, Number(pattern[i + 1])))

\* a table lookup that is one entry off
patternOfShifted(code) ==
  IF code \in 1..Len(CODE128_PATTERNS) THEN CODE128_PATTERNS[code] ELSE << >>

\* CODE128_PATTERNS[code] is undefined (falsy) outside 0..106
patternOf(code) ==
  IF code \in 0..(Len(CODE128_PATTERNS) - 1) THEN CODE128_PATTERNS[code + 1] ELSE << >>

\* the loop of codesToModules from the k-th code on; a throw abandons acc
RECURSIVE codesToModulesLoop(_, _, _)
codesToModulesLoop(cs, k, acc) ==
  IF k > Len(cs) THEN [error |-> NoError, modules |-> acc]
  ELSE LET pattern == patternOf(cs[k])
       IN IF pattern = << >>
          THEN [error |-> [kind |-> "PatternNotFound", code |-> cs[k]], modules |-> << >>]
          ELSE codesToModulesLoop(cs, k + 1, pushPattern(pattern, 0, acc))

codesToModules(cs) == codesToModulesLoop(cs, 1, << >>)

\* modules.reduce((acc, m) => acc + m, 0)
RECURSIVE reduceSum(_, _, _)
reduceSum(ms, k, acc) ==
  IF k > Len(ms) THEN acc ELSE reduceSum(ms, k + 1, acc + ms[k])

Max(a, b) == IF a >= b THEN a ELSE b
Min(a, b) == IF a <= b THEN a ELSE b

\* one String.prototype.replace(/c/g, repl) over a sequence of code units
RECURSIVE replaceAll(_, _, _)
replaceAll(s, c, repl) ==
  IF s = << >> THEN << >>
  ELSE (IF Head(s) = c THEN repl ELSE <<Head(s)>>) \o replaceAll(Tail(s), c, repl)

\* escapeXml: & first, then < > " '
escapeXml(s) ==
  LET a == replaceAll(s, 38, <<38, 97, 109, 112, 59>>)
      b == replaceAll(a, 60, <<38, 108, 116, 59>>)
      c == replaceAll(b, 62, <<38, 103, 116, 59>>)
      d == replaceAll(c, 34, <<38, 113, 117, 111, 116, 59>>)
  IN replaceAll(d, 39, <<38, 97, 112, 111, 115, 59>>)

\* the bar walk of renderCode128BToSvg from the k-th module on
RECURSIVE barWalk(_, _, _, _, _, _, _)
barWalk(ms, k, cx, isBar, svgBars, moduleWidth, barsHeight) ==
  IF k > Len(ms) THEN [x |-> cx, svgBars |-> svgBars]
  ELSE LET wPx == ms[k] * moduleWidth
       IN barWalk(ms, k + 1, cx + wPx, ~isBar,
                  IF isBar
                  THEN Append(svgBars, [x |-> toString10(cx), width |-> toString10(wPx),
                                        height |-> toString10(barsHeight)])
                  ELSE svgBars,
                  moduleWidth, barsHeight)

\* a total that counts the quiet zone on one side only
totalModulesOneSide(ms, quietZone) == reduceSum(ms, 1, 0) + quietZone

totalModulesOf(ms, quietZone) == reduceSum(ms, 1, 0) + quietZone * 2

renderCode128BToSvg(t, ms, o) ==
  LET totalModules == totalModulesOf(ms, o.quietZone)
      barsHeight == IF o.displayValue
                    THEN Max(0, o.height - o.fontSize - o.textMargin)
                    ELSE o.height
      widthPx == totalModules * o.moduleWidth
      heightPx == o.height
      walk == barWalk(ms, 1, o.quietZone * o.moduleWidth, TRUE, << >>,
                      o.moduleWidth, barsHeight)
  IN [x |-> walk.x,
      svg |-> [kind |-> "svg",
               width |-> toString10(widthPx),
               height |-> toString10(heightPx),
               viewBox |-> <<toString10(0), toString10(0), toString10(widthPx), toString10(heightPx)>>,
               svgBars |-> walk.svgBars,
               svgText |-> IF o.displayValue THEN <<escapeXml(t)>> ELSE << >>]]

----------------------------------------------------------------------------
(* The encoder as a state machine: one call of renderCode128BToSvg(text,   *)
(* options); pc = "expanded" is the return of encodeCode128BToModules.     *)

RenderOptions ==
  [moduleWidth : 1..MaxModuleWidth, quietZone : 0..MaxQuietZone, height : {60},
   displayValue : BOOLEAN, fontSize : {14}, textMargin : {4}]

Init ==
  /\ pc = "start"
  /\ text \in Texts
  /\ options \in RenderOptions
  /\ error = NoError
  /\ codes = << >>
  /\ modules = << >>
  /\ x = 0
  /\ svg = None
  /\ TrimIdle
  /\ StepIdle
  /\ SelfTestIdle

Validate ==
  /\ pc = "start"
  /\ error' = assertCodeSetBCompatible(text)
  /\ pc' = IF error' = NoError THEN "validated" ELSE "failed"
  /\ UNCHANGED <<text, options, codes, modules, x, svg, trimVars, selfVars, stepVars>>

ComputeCodes ==
  /\ pc = "validated"
  /\ codes' = computeCodesForSetB(text)
  /\ pc' = "encoded"
  /\ UNCHANGED <<text, options, error, modules, x, svg, trimVars, selfVars, stepVars>>

ExpandCodes ==
  /\ pc = "encoded"
  /\ LET r == codesToModules(codes)
     IN /\ error' = r.error
        /\ modules' = r.modules
        /\ pc' = IF r.error = NoError THEN "expanded" ELSE "failed"
  /\ UNCHANGED <<text, options, codes, x, svg, trimVars, selfVars, stepVars>>

Render ==
  /\ pc = "expanded"
  /\ LET r == renderCode128BToSvg(text, modules, options)
     IN /\ x' = r.x
        /\ svg' = r.svg
  /\ pc' = "rendered"
  /\ UNCHANGED <<text, options, error, codes, modules, trimVars, selfVars, stepVars>>

Next == Validate \/ ComputeCodes \/ ExpandCodes \/ Render

Spec == Init /\ [][Next]_vars

----------------------------------------------------------------------------
(* part_001: computeHorizontalBounds and cropHorizontalBuffer *)

MaxWidth == 3
MaxHeight == 2
MaxPixels == 6
MaxSampleStep == 2

\* a ratio is kept exact, as num / den with den > 0
Ratio(n, d) == [num |-> n, den |-> d]

\* Math.floor(height * Math.max(0, Math.min(1, ratio)))
floorScaled(height, ratio) ==
  IF ratio.num <= 0 THEN 0
  ELSE IF ratio.num >= ratio.den THEN height
  ELSE (height * ratio.num) \div ratio.den

minHitsOf(height, ratio) == Max(1, floorScaled(height, ratio))

\* view[k] is undefined outside the buffer
inView(view, k) == k >= 0 /\ k < Len(view)

\* (54 * r + 183 * g + 19 * b) >> 8; an undefined operand makes the sum NaN,
\* and NaN >> 8 is 0
luminanceOf(view, ri, gi, bi) ==
  IF inView(view, ri) /\ inView(view, gi) /\ inView(view, bi)
  THEN (54 * view[ri + 1] + 183 * view[gi + 1] + 19 * view[bi + 1]) \div 256
  ELSE 0

isBlackAtIndex(view, idx, o) ==
  LET ri == IF o.pixelOrder = "BGRA" THEN idx + 2 ELSE idx
      gi == idx + 1
      bi == IF o.pixelOrder = "BGRA" THEN idx ELSE idx + 2
      ai == idx + 3
  IN \* undefined >= 16 is false
     /\ inView(view, ai)
     /\ view[ai + 1] >= 16
     /\ luminanceOf(view, ri, gi, bi) <= o.blackThreshold

\* the inner loop over the rows of one column, from row y with hits counted
RECURSIVE columnHits(_, _, _, _, _, _, _, _)
columnHits(view, width, height, col, y, hits, minHits, o) ==
  IF y >= height THEN hits
  ELSE IF isBlackAtIndex(view, (y * width + col) * o.bytesPerPixel, o)
       THEN IF hits + 1 >= minHits THEN hits + 1
            ELSE columnHits(view, width, height, col, y + o.sampleStep, hits + 1, minHits, o)
       ELSE columnHits(view, width, height, col, y + o.sampleStep, hits, minHits, o)

columnInked(view, width, height, col, minHits, o) ==
  columnHits(view, width, height, col, 0, 0, minHits, o) >= minHits

\* "Scan from left": the value of left when the loop ends
RECURSIVE scanFromLeft(_, _, _, _, _, _)
scanFromLeft(view, width, height, left, minHits, o) ==
  IF left >= width THEN left
  ELSE IF columnInked(view, width, height, left, minHits, o) THEN left
  ELSE scanFromLeft(view, width, height, left + 1, minHits, o)

\* "Scan from right": the value of right when the loop ends
RECURSIVE scanFromRight(_, _, _, _, _, _, _)
scanFromRight(view, width, height, right, left, minHits, o) ==
  IF right < left THEN right
  ELSE IF columnInked(view, width, height, right, minHits, o) THEN right
  ELSE scanFromRight(view, width, height, right - 1, left, minHits, o)

\* a right scan that stops one column early
scanRightShort(view, width, height, left, minHits, o) ==
  scanFromRight(view, width, height, width - 2, left, minHits, o)

scanRight(view, width, height, left, minHits, o) ==
  scanFromRight(view, width, height, width - 1, left, minHits, o)

\* a sentinel whose right edge is one past the last column
fullWidthPlusOne(width) == [kind |-> "bounds", left |-> 0, right |-> width]

\* "If nothing found, return full width"
fullWidth(width) == [kind |-> "bounds", left |-> 0, right |-> width - 1]

\* a scan that rejects an empty image instead of answering {0, 0}
computeHorizontalBoundsRejectingEmpty(buffer, width, height, o) ==
  IF o.bytesPerPixel # 4 \/ width <= 0 \/ height <= 0
  THEN [kind |-> "Error", message |-> "Only 4 bytes-per-pixel buffers (RGBA/BGRA) are supported"]
  ELSE LET minHits == minHitsOf(height, o.minCoverageRatio)
           left == scanFromLeft(buffer, width, height, 0, minHits, o)
           right == scanRight(buffer, width, height, left, minHits, o)
       IN IF left >= width \/ right < 0 \/ right < left
          THEN fullWidth(width)
          ELSE [kind |-> "bounds", left |-> left, right |-> right]

computeHorizontalBounds(buffer, width, height, o) ==
  IF o.bytesPerPixel # 4
  THEN [kind |-> "Error", message |-> "Only 4 bytes-per-pixel buffers (RGBA/BGRA) are supported"]
  ELSE IF width <= 0 \/ height <= 0 THEN [kind |-> "bounds", left |-> 0, right |-> 0]
  ELSE LET minHits == minHitsOf(height, o.minCoverageRatio)
           left == scanFromLeft(buffer, width, height, 0, minHits, o)
           right == scanRight(buffer, width, height, left, minHits, o)
       IN IF left >= width \/ right < 0 \/ right < left
          THEN fullWidth(width)
          ELSE [kind |-> "bounds", left |-> left, right |-> right]

\* new Uint8Array(n): n zero bytes
zeros(n) == [i \in 1..n |-> 0]

\* TypedArray.prototype.subarray(begin, end): negative indices count from the
\* end, both are clamped to the array
subarray(a, begin, end) ==
  LET len == Len(a)
      b == IF begin < 0 THEN Max(len + begin, 0) ELSE Min(begin, len)
      e == IF end < 0 THEN Max(len + end, 0) ELSE Min(end, len)
  IN SubSeq(a, b + 1, e)

\* TypedArray.prototype.set(source, offset); the callers never overrun out
setAt(out, source, offset) ==
  [i \in 1..Len(out) |->
     IF i > offset /\ i <= offset + Len(source) THEN source[i - offset] ELSE out[i]]

\* a row start that forgets the left bound
srcRowStartNoLeft(y, width, left, bytesPerPixel) == (y * width) * bytesPerPixel

srcRowStartOf(y, width, left, bytesPerPixel) == (y * width + left) * bytesPerPixel

\* the row loop of cropHorizontalBuffer from row y on
RECURSIVE copyRows(_, _, _, _, _, _, _, _)
copyRows(src, out, width, height, left, cropWidth, bytesPerPixel, y) ==
  IF y >= height THEN out
  ELSE LET srcRowStart == srcRowStartOf(y, width, left, bytesPerPixel)
           dstRowStart == y * cropWidth * bytesPerPixel
       IN copyRows(src,
                   setAt(out, subarray(src, srcRowStart, srcRowStart + cropWidth * bytesPerPixel),
                         dstRowStart),
                   width, height, left, cropWidth, bytesPerPixel, y + 1)

\* out.set throws a RangeError when source does not fit at offset: whether
\* some row of the loop of cropHorizontalBuffer, from row y on, does that
RECURSIVE anyRowOverruns(_, _, _, _, _, _, _, _)
anyRowOverruns(src, outLength, width, height, left, cropWidth, bytesPerPixel, y) ==
  IF y >= height THEN FALSE
  ELSE LET srcRowStart == srcRowStartOf(y, width, left, bytesPerPixel)
           dstRowStart == y * cropWidth * bytesPerPixel
           row == subarray(src, srcRowStart, srcRowStart + cropWidth * bytesPerPixel)
       IN \/ dstRowStart < 0
          \/ dstRowStart + Len(row) > outLength
          \/ anyRowOverruns(src, outLength, width, height, left, cropWidth, bytesPerPixel,
                            y + 1)

\* a crop that hands back its input when there is nothing to cut
cropHorizontalBufferShortCircuit(buffer, width, height, left, right, bytesPerPixel) ==
  LET cropWidth == Max(0, right - left + 1)
  IN IF cropWidth = 0 \/ cropWidth = width \/ width = 0 \/ height = 0
     THEN [kind |-> "image", buffer |-> buffer, width |-> width, height |-> height,
           src |-> buffer]
     ELSE [kind |-> "image",
           buffer |-> copyRows(buffer, zeros(cropWidth * height * bytesPerPixel), width,
                               height, left, cropWidth, bytesPerPixel, 0),
           width |-> cropWidth, height |-> height, src |-> buffer]

\* src: the bytes of the source buffer when the call returns (it is only read)
cropHorizontalBuffer(buffer, width, height, left, right, bytesPerPixel) ==
  LET src == buffer
      cropWidth == Max(0, right - left + 1)
      out == zeros(cropWidth * height * bytesPerPixel)
  IN IF cropWidth * height * bytesPerPixel < 0
     THEN \* new Uint8Array of a negative length
          [kind |-> "RangeError", message |-> "Invalid typed array length"]
     ELSE IF cropWidth = 0 \/ width = 0 \/ height = 0
     THEN [kind |-> "image", buffer |-> out, width |-> cropWidth, height |-> height,
           src |-> src]
     ELSE IF anyRowOverruns(src, Len(out), width, height, left, cropWidth, bytesPerPixel, 0)
     THEN [kind |-> "RangeError", message |-> "offset is out of bounds"]
     ELSE [kind |-> "image",
           buffer |-> copyRows(src, out, width, height, left, cropWidth, bytesPerPixel, 0),
           width |-> cropWidth, height |-> height, src |-> src]

----------------------------------------------------------------------------
(* The inputs of the trim pipeline *)

Black == <<0, 0, 0, 255>>
White == <<255, 255, 255, 255>>
Blue == <<0, 0, 255, 255>>
ClearBlack == <<0, 0, 0, 0>>
Palette == {Black, White, Blue, ClearBlack}

RECURSIVE Flatten(_, _)
Flatten(f, n) == IF n = 0 THEN << >> ELSE Flatten(f, n - 1) \o f[n]

Image(b, w, h) == [buffer |-> b, width |-> w, height |-> h]

Sizes == {s \in (1..MaxWidth) \X (1..MaxHeight) : s[1] * s[2] <= MaxPixels}

\* every image of the palette, 4 bytes per pixel, row-major
PaletteImages ==
  UNION {{Image(Flatten(f, s[1] * s[2]), s[1], s[2]) : f \in [1..(s[1] * s[2]) -> Palette]}
         : s \in Sizes}

\* opaque black in every row of columns L..R, opaque white elsewhere
BandBuffer(w, h, L, R) ==
  [i \in 1..(w * h * 4) |->
     IF (i - 1) % 4 = 3 THEN 255
     ELSE IF (((i - 1) \div 4) % w) \in L..R THEN 0 ELSE 255]

BandImages ==
  {Image(BandBuffer(s[1], s[2], L, R), s[1], s[2]) :
     s \in (1..MaxWidth) \X (1..MaxHeight), L \in 0..(MaxWidth - 1), R \in 0..(MaxWidth - 1)}

\* buffers of any pixel size whose bytes all differ
PatternBuffer(n, seed) == [i \in 1..n |-> (seed + 7 * i) % 256]
BytesPerPixelChoices == {1, 3, 4}
Seeds == {0, 100}

PaletteScanOptions ==
  [bytesPerPixel : {4}, pixelOrder : {"RGBA", "BGRA"}, blackThreshold : {30, 64},
   minCoverageRatio : {Ratio(1, 50), Ratio(1, 1)}, sampleStep : 1..MaxSampleStep]

BandScanOptions ==
  [bytesPerPixel : {4}, pixelOrder : {"RGBA", "BGRA"}, blackThreshold : {0, 64, 254, 255},
   minCoverageRatio : {Ratio(0, 1), Ratio(1, 50), Ratio(1, 2), Ratio(1, 1)},
   sampleStep : 1..MaxSampleStep]

\* arguments the callers of this repository never pass: any pixel size, and
\* buffers that are empty, one byte short or one byte long
AnyBytesPerPixel == {-1, 0, 1, 3, 4}
OddLengths(w, h) == {0, w * h * 4 + 1} \cup {n \in {w * h * 4 - 1} : n >= 0}

DefaultScanOptions(bpp) ==
  [bytesPerPixel |-> bpp, pixelOrder |-> "RGBA", blackThreshold |-> 64,
   minCoverageRatio |-> Ratio(1, 50), sampleStep |-> 1]

EncoderIdle ==
  /\ text = << >> /\ options = None /\ error = NoError /\ codes = << >>
  /\ modules = << >> /\ x = 0 /\ svg = None

InitTrim ==
  /\ pc = "t_start"
  /\ EncoderIdle
  /\ SelfTestIdle
  /\ StepIdle
  /\ bounds = None /\ cropped = None /\ srcView = << >>
  /\ bounds2 = None /\ cropped2 = None
  /\ \/ /\ call = "trim"
        /\ img \in PaletteImages
        /\ scanOpts \in PaletteScanOptions
        /\ cropArgs = None
     \/ /\ call = "trim"
        /\ img \in {i \in BandImages : i.width > 0}
        /\ scanOpts \in BandScanOptions
        /\ cropArgs = None
     \/ /\ call \in {"trim", "crop"}
        /\ \E w \in 1..MaxWidth, h \in 0..MaxHeight, bpp \in BytesPerPixelChoices,
              seed \in Seeds :
             /\ img = Image(PatternBuffer(w * h * bpp, seed), w, h)
             /\ scanOpts = DefaultScanOptions(bpp)
             /\ IF call = "crop"
                THEN cropArgs \in [left : (-1)..w, right : (-1)..w]
                ELSE cropArgs = None
     \/ /\ call \in {"trim", "crop"}
        /\ \E w \in 0..MaxWidth, h \in 0..MaxHeight, bpp \in AnyBytesPerPixel :
             /\ \E n \in OddLengths(w, h) : img = Image(PatternBuffer(n, 0), w, h)
             /\ scanOpts = DefaultScanOptions(bpp)
             /\ IF call = "crop"
                THEN cropArgs \in [left : (-1)..w, right : (-1)..w]
                ELSE cropArgs = None

\* const { left, right } = computeHorizontalBounds(buffer, width, height, options)
Scan ==
  /\ pc = "t_start" /\ call = "trim"
  /\ bounds' = computeHorizontalBounds(img.buffer, img.width, img.height, scanOpts)
  /\ pc' = IF bounds'.kind = "Error" THEN "t_failed" ELSE "t_scanned"
  /\ UNCHANGED <<encVars, selfVars, stepVars, call, img, scanOpts, cropArgs, cropped, srcView, bounds2, cropped2>>

\* cropHorizontalBuffer(buffer, width, height, left, right, { bytesPerPixel })
CropAtBounds ==
  /\ pc = "t_scanned"
  /\ LET r == cropHorizontalBuffer(img.buffer, img.width, img.height, bounds.left,
                                   bounds.right, scanOpts.bytesPerPixel)
     IN /\ cropped' = IF r.kind = "image" THEN Image(r.buffer, r.width, r.height) ELSE r
        /\ srcView' = IF r.kind = "image" THEN r.src ELSE img.buffer
        /\ pc' = IF r.kind = "image" THEN "t_trimmed" ELSE "t_failed"
  /\ cropArgs' = [left |-> bounds.left, right |-> bounds.right]
  /\ UNCHANGED <<encVars, selfVars, stepVars, call, img, scanOpts, bounds, bounds2, cropped2>>

\* the trimmed image scanned again with the same options
Rescan ==
  /\ pc = "t_trimmed"
  /\ bounds2' = computeHorizontalBounds(cropped.buffer, cropped.width, cropped.height,
                                        scanOpts)
  /\ pc' = "t_rescanned"
  /\ UNCHANGED <<encVars, selfVars, stepVars, call, img, scanOpts, cropArgs, bounds, cropped, srcView, cropped2>>

\* and cropped again with the bounds of the second scan
Recrop ==
  /\ pc = "t_rescanned"
  /\ LET r == cropHorizontalBuffer(cropped.buffer, cropped.width, cropped.height,
                                   bounds2.left, bounds2.right, scanOpts.bytesPerPixel)
     IN /\ cropped2' = IF r.kind = "image" THEN Image(r.buffer, r.width, r.height) ELSE r
        /\ pc' = IF r.kind = "image" THEN "t_retrimmed" ELSE "t_failed"
  /\ UNCHANGED <<encVars, selfVars, stepVars, call, img, scanOpts, cropArgs, bounds, cropped, srcView, bounds2>>

\* a direct call of cropHorizontalBuffer with the caller's own bounds
CropWith ==
  /\ pc = "t_start" /\ call = "crop"
  /\ LET r == cropHorizontalBuffer(img.buffer, img.width, img.height, cropArgs.left,
                                   cropArgs.right, scanOpts.bytesPerPixel)
     IN /\ cropped' = IF r.kind = "image" THEN Image(r.buffer, r.width, r.height) ELSE r
        /\ srcView' = IF r.kind = "image" THEN r.src ELSE img.buffer
        /\ pc' = IF r.kind = "image" THEN "t_cropped" ELSE "t_failed"
  /\ UNCHANGED <<encVars, selfVars, stepVars, call, img, scanOpts, cropArgs, bounds, bounds2, cropped2>>

NextTrim == Scan \/ CropAtBounds \/ Rescan \/ Recrop \/ CropWith

SpecTrim == InitTrim /\ [][NextTrim]_vars

----------------------------------------------------------------------------
(* src/code128Trim/selftest.ts: the PixelMap trimming (./trim) and its      *)
(* self-test.  A PixelMap handle is [id, bytes, width, height, pixelFormat]; *)
(* image.createPixelMap hands out a handle with a new id.                    *)

MaxTotalWidth == 7
MaxSynthHeight == 2
MaxMargin == 2
MaxBarWidth == 3

CODE128_CODE == 104
\* a JavaScript value with its typeof
Num(n) == [type |-> "number", value |-> n]
Str(s) == [type |-> "string", value |-> s]

ScanTypes == {Num(CODE128_CODE), Num(0)}

\* the values runSelfTest uses
SelfTestParameters ==
  [totalWidth |-> 400, height |-> 120, leftMargin |-> 40, rightMargin |-> 60,
   barWidth |-> 3]

PixelMap(id, bytes, w, h, fmt) ==
  [kind |-> "PixelMap", id |-> id, bytes |-> bytes, width |-> w, height |-> h,
   pixelFormat |-> fmt]

\* the byte loop of createSyntheticBarcodePixelMap
syntheticBytes(totalWidth, height, leftMargin, rightMargin, barWidth) ==
  [k \in 1..(totalWidth * height * 4) |->
     LET i == ((k - 1) \div 4) * 4
         px == ((k - 1) \div 4) % totalWidth
         relative == px - leftMargin
         isBlack == /\ px >= leftMargin /\ px < totalWidth - rightMargin
                    /\ (relative \div barWidth) % 2 = 0
     IN IF (k - 1) - i = 3 THEN 255 ELSE IF isBlack THEN 0 ELSE 255]

createSyntheticBarcodePixelMap(p) ==
  PixelMap(1, syntheticBytes(p.totalWidth, p.height, p.leftMargin, p.rightMargin,
                             p.barWidth),
           p.totalWidth, p.height, "RGBA_8888")

getChannelOffsets(pixelFormat) ==
  CASE pixelFormat = "RGBA_8888" ->
         [redOffset |-> 0, greenOffset |-> 1, blueOffset |-> 2, alphaOffset |-> 3,
          bytesPerPixel |-> 4]
    [] pixelFormat = "BGRA_8888" ->
         [redOffset |-> 2, greenOffset |-> 1, blueOffset |-> 0, alphaOffset |-> 3,
          bytesPerPixel |-> 4]
    [] pixelFormat = "ARGB_8888" ->
         [redOffset |-> 1, greenOffset |-> 2, blueOffset |-> 3, alphaOffset |-> 0,
          bytesPerPixel |-> 4]
    [] OTHER ->
         [redOffset |-> 0, greenOffset |-> 1, blueOffset |-> 2, alphaOffset |-> 3,
          bytesPerPixel |-> 4]

\* (red + green + blue) / 3 <= blackThreshold, kept in integers
isBlackPixel(pixelBytes, indexBase, offsets, blackThreshold) ==
  LET red == pixelBytes[indexBase + offsets.redOffset + 1]
      green == pixelBytes[indexBase + offsets.greenOffset + 1]
      blue == pixelBytes[indexBase + offsets.blueOffset + 1]
  IN red + green + blue <= 3 * blackThreshold

\* the row loop of one column: hasBlack
RECURSIVE hasBlackFrom(_, _, _, _, _, _, _)
hasBlackFrom(pixelBytes, width, height, offsets, blackThreshold, col, y) ==
  IF y >= height THEN FALSE
  ELSE IF isBlackPixel(pixelBytes, (y * width + col) * offsets.bytesPerPixel, offsets,
                       blackThreshold)
       THEN TRUE
       ELSE hasBlackFrom(pixelBytes, width, height, offsets, blackThreshold, col, y + 1)

\* first loop: left, or -1
RECURSIVE findLeft(_, _, _, _, _, _)
findLeft(pixelBytes, width, height, offsets, blackThreshold, col) ==
  IF col >= width THEN -1
  ELSE IF hasBlackFrom(pixelBytes, width, height, offsets, blackThreshold, col, 0) THEN col
  ELSE findLeft(pixelBytes, width, height, offsets, blackThreshold, col + 1)

\* second loop: right, or -1
RECURSIVE findRight(_, _, _, _, _, _)
findRight(pixelBytes, width, height, offsets, blackThreshold, col) ==
  IF col < 0 THEN -1
  ELSE IF hasBlackFrom(pixelBytes, width, height, offsets, blackThreshold, col, 0) THEN col
  ELSE findRight(pixelBytes, width, height, offsets, blackThreshold, col - 1)

scanEffectiveHorizontalBounds(pixelBytes, width, height, offsets, blackThreshold) ==
  LET left == findLeft(pixelBytes, width, height, offsets, blackThreshold, 0)
      right == findRight(pixelBytes, width, height, offsets, blackThreshold, width - 1)
  IN IF left < 0 \/ right < 0 \/ right < left THEN None
     ELSE [kind |-> "bounds", left |-> left, right |-> right]

\* the copy loop of dealWithCodel128 from row y on
RECURSIVE copyCroppedRows(_, _, _, _, _, _, _, _)
copyCroppedRows(bytes, croppedBytes, width, height, left, newWidth, bytesPerPixel, y) ==
  IF y >= height THEN croppedBytes
  ELSE LET srcRowStart == (y * width + left) * bytesPerPixel
           dstRowStart == (y * newWidth) * bytesPerPixel
           rowLength == newWidth * bytesPerPixel
       IN copyCroppedRows(bytes,
                          setAt(croppedBytes,
                                subarray(bytes, srcRowStart, srcRowStart + rowLength),
                                dstRowStart),
                          width, height, left, newWidth, bytesPerPixel, y + 1)

\* dealWithCodel128 of ./trim; newId is the id image.createPixelMap gives
\* the bounds dealWithCodel128 detects once it has read the pixels
trimDetect(pm) ==
  scanEffectiveHorizontalBounds(pm.bytes, pm.width, pm.height,
                                getChannelOffsets(pm.pixelFormat), 48)

\* the readPixelsToBuffer calls of dealWithCodel128: one, in readPixelBytes
trimPixelReads(pm, opt) == IF opt.scanType # Num(CODE128_CODE) THEN 0 ELSE 1

dealWithCodel128(pm, opt, newId) ==
  IF opt.scanType # Num(CODE128_CODE) THEN pm
  ELSE LET bytes == pm.bytes
           width == pm.width
           height == pm.height
           pixelFormat == pm.pixelFormat
           offsets == getChannelOffsets(pixelFormat)
           bds == trimDetect(pm)
       IN IF bds = None THEN pm
          ELSE LET newWidth == bds.right - bds.left + 1
               IN IF newWidth <= 0 \/ newWidth = width THEN pm
                  ELSE PixelMap(newId,
                                copyCroppedRows(bytes,
                                                zeros(newWidth * height * offsets.bytesPerPixel),
                                                width, height, bds.left, newWidth,
                                                offsets.bytesPerPixel, 0),
                                newWidth, height, pixelFormat)

SynthParameters ==
  [totalWidth : 1..MaxTotalWidth, height : 1..MaxSynthHeight, leftMargin : 0..MaxMargin,
   rightMargin : 0..MaxMargin, barWidth : 1..MaxBarWidth]

\* the columns of the image runSelfTest builds, a few rows high
SelfTestColumns == {[SelfTestParameters EXCEPT !.height = h] : h \in 1..MaxSynthHeight}

InitSelfTest ==
  /\ pc = "s_start"
  /\ EncoderIdle
  /\ TrimIdle
  /\ StepIdle
  /\ synth \in SynthParameters \cup SelfTestColumns
  /\ option \in [scanType : ScanTypes]
  /\ pixelMap = None
  /\ processed = None
  /\ outcome = "none"
  /\ impl = "trim" /\ env = None /\ pixelReads = 0 /\ detected = None

\* const pixelMap = await createSyntheticBarcodePixelMap(...)
CreateSynthetic ==
  /\ pc = "s_start"
  /\ pixelMap' = createSyntheticBarcodePixelMap(synth)
  /\ pc' = "s_created"
  /\ UNCHANGED <<encVars, trimVars, stepVars, synth, option, processed, outcome, impl, env,
                 pixelReads, detected>>

\* const processed = await dealWithCodel128(pixelMap, option)
DealWithCodel128 ==
  /\ pc = "s_created" /\ impl = "trim"
  /\ processed' = dealWithCodel128(pixelMap, option, pixelMap.id + 1)
  /\ pixelReads' = trimPixelReads(pixelMap, option)
  /\ detected' = IF option.scanType = Num(CODE128_CODE) THEN trimDetect(pixelMap) ELSE None
  /\ pc' = "s_returned"
  /\ UNCHANGED <<encVars, trimVars, stepVars, synth, option, pixelMap, outcome, impl, env>>

\* the comparison of runSelfTest: it throws on a size other than expected
CheckSize ==
  /\ pc = "s_returned"
  /\ LET expectedWidth == synth.totalWidth - synth.leftMargin - synth.rightMargin
     IN outcome' = IF processed.width # expectedWidth \/ processed.height # synth.height
                   THEN "SelfTest failed"
                   ELSE "passed"
  /\ pc' = "s_done"
  /\ UNCHANGED <<encVars, trimVars, stepVars, synth, option, pixelMap, processed, impl, env,
                 pixelReads, detected>>

NextSelfTest == CreateSynthetic \/ DealWithCodel128 \/ CheckSize

SpecSelfTest == InitSelfTest /\ [][NextSelfTest]_vars

----------------------------------------------------------------------------
(* computeHorizontalBounds step by step: one action for each loop test and   *)
(* each loop body of the two scans                                           *)

TwoToneImages ==
  UNION {{Image(Flatten(f, s[1] * s[2]), s[1], s[2]) : f \in [1..(s[1] * s[2]) -> {Black, White}]}
         : s \in Sizes}

StepScanOptions ==
  [bytesPerPixel : {4}, pixelOrder : {"RGBA"}, blackThreshold : {64},
   minCoverageRatio : {Ratio(1, 50), Ratio(1, 1)}, sampleStep : 1..MaxSampleStep]

InitScan ==
  /\ pc = "c_start"
  /\ EncoderIdle
  /\ SelfTestIdle
  /\ StepIdle
  /\ call = "scan"
  /\ img \in TwoToneImages
  /\ scanOpts \in StepScanOptions
  /\ cropArgs = None /\ bounds = None /\ cropped = None /\ srcView = << >>
  /\ bounds2 = None /\ cropped2 = None

\* const minHits
minHitsNow == minHitsOf(img.height, scanOpts.minCoverageRatio)

\* a row scan that never leaves its loop early
rowScanNeverBreaks(h, m) == FALSE

\* if (hits >= minHits) break, inside the row loop
rowScanBreaks(h, m) == h >= m

\* one turn of the row loop at column col: the next position, y and hits
rowStep(col, after, again) ==
  IF sY >= img.height
  THEN /\ pc' = after /\ UNCHANGED <<sY, sHits>>
  ELSE IF isBlackAtIndex(img.buffer, (sY * img.width + col) * scanOpts.bytesPerPixel, scanOpts)
       THEN /\ sHits' = sHits + 1
            /\ IF rowScanBreaks(sHits + 1, minHitsNow)
               THEN pc' = after /\ sY' = sY
               ELSE pc' = again /\ sY' = sY + scanOpts.sampleStep
       ELSE /\ pc' = again /\ sY' = sY + scanOpts.sampleStep /\ sHits' = sHits

\* the argument checks and "let left = 0"
EnterScan ==
  /\ pc = "c_start" /\ call = "scan"
  /\ IF scanOpts.bytesPerPixel # 4
     THEN /\ pc' = "t_failed"
          /\ bounds' = [kind |-> "Error",
                        message |-> "Only 4 bytes-per-pixel buffers (RGBA/BGRA) are supported"]
     ELSE IF img.width <= 0 \/ img.height <= 0
     THEN pc' = "c_done" /\ bounds' = [kind |-> "bounds", left |-> 0, right |-> 0]
     ELSE pc' = "c_left" /\ bounds' = bounds
  /\ sLeft' = 0
  /\ UNCHANGED <<encVars, selfVars, call, img, scanOpts, cropArgs, cropped, srcView, bounds2,
                 cropped2, sRight, sY, sHits>>

\* for (; left < width; ...) { let hits = 0; for (let y = 0; ...
LeftColumn ==
  /\ pc = "c_left"
  /\ IF sLeft < img.width
     THEN pc' = "c_left_row" /\ sHits' = 0 /\ sY' = 0
     ELSE pc' = "c_right_start" /\ UNCHANGED <<sHits, sY>>
  /\ UNCHANGED <<encVars, selfVars, trimVars, sLeft, sRight>>

LeftRow ==
  /\ pc = "c_left_row"
  /\ rowStep(sLeft, "c_left_after", "c_left_row")
  /\ UNCHANGED <<encVars, selfVars, trimVars, sLeft, sRight>>

\* if (hits >= minHits) break; ... left++
LeftNext ==
  /\ pc = "c_left_after"
  /\ IF sHits >= minHitsNow
     THEN pc' = "c_right_start" /\ sLeft' = sLeft
     ELSE pc' = "c_left" /\ sLeft' = sLeft + 1
  /\ UNCHANGED <<encVars, selfVars, trimVars, sRight, sY, sHits>>

\* let right = width - 1
StartRight ==
  /\ pc = "c_right_start"
  /\ sRight' = img.width - 1
  /\ pc' = "c_right"
  /\ UNCHANGED <<encVars, selfVars, trimVars, sLeft, sY, sHits>>

\* for (; right >= left; ...) { let hits = 0; for (let y = 0; ...
RightColumn ==
  /\ pc = "c_right"
  /\ IF sRight >= sLeft
     THEN pc' = "c_right_row" /\ sHits' = 0 /\ sY' = 0
     ELSE pc' = "c_return" /\ UNCHANGED <<sHits, sY>>
  /\ UNCHANGED <<encVars, selfVars, trimVars, sLeft, sRight>>

RightRow ==
  /\ pc = "c_right_row"
  /\ rowStep(sRight, "c_right_after", "c_right_row")
  /\ UNCHANGED <<encVars, selfVars, trimVars, sLeft, sRight>>

\* if (hits >= minHits) break; ... right--
RightNext ==
  /\ pc = "c_right_after"
  /\ IF sHits >= minHitsNow
     THEN pc' = "c_return" /\ sRight' = sRight
     ELSE pc' = "c_right" /\ sRight' = sRight - 1
  /\ UNCHANGED <<encVars, selfVars, trimVars, sLeft, sY, sHits>>

\* "If nothing found, return full width", else { left, right }
ReturnBounds ==
  /\ pc = "c_return"
  /\ bounds' = IF sLeft >= img.width \/ sRight < 0 \/ sRight < sLeft
               THEN fullWidth(img.width)
               ELSE [kind |-> "bounds", left |-> sLeft, right |-> sRight]
  /\ pc' = "c_done"
  /\ UNCHANGED <<encVars, selfVars, call, img, scanOpts, cropArgs, cropped, srcView, bounds2,
                 cropped2, stepVars>>

NextScan ==
  \/ EnterScan
  \/ LeftColumn
  \/ LeftRow
  \/ LeftNext
  \/ StartRight
  \/ RightColumn
  \/ RightRow
  \/ RightNext
  \/ ReturnBounds

SpecScan == InitScan /\ [][NextScan]_vars

\* the function is one synchronous call: once entered it runs to its return
SpecScanFair == SpecScan /\ WF_vars(NextScan)

----------------------------------------------------------------------------
(* src/harmony/dealWithCodel128.ts: the ArkTS trimming of a PixelMap.  The   *)
(* host is env: whether globalThis.scanCore exists, and which crop method   *)
(* the PixelMap offers.                                                      *)

\* String.prototype.toUpperCase on code units (ASCII letters)
toUpperCase(s) == [i \in 1..Len(s) |-> IF s[i] \in 97..122 THEN s[i] - 32 ELSE s[i]]

\* String.prototype.includes
includes(s, needle) ==
  \E k \in 0..(Len(s) - Len(needle)) : SubSeq(s, k + 1, k + Len(needle)) = needle

StrCODE128 == <<67, 79, 68, 69, 49, 50, 56>>
StrCODE_128 == <<67, 79, 68, 69, 95, 49, 50, 56>>

shouldTrimForCode128(opt, e) ==
  LET val == opt.scanType
      enumDefined == e.scanCore
  IN \/ enumDefined /\ val = Num(CODE128_CODE)
     \/ val.type = "string" /\ includes(toUpperCase(val.value), StrCODE128)
     \/ val.type = "string" /\ includes(toUpperCase(val.value), StrCODE_128)

getPixelOrderFromFormat(fmt) == IF fmt = "BGRA_8888" THEN "BGRA" ELSE "RGBA"

\* the options dealWithCodel128 passes to computeHorizontalBounds
harmonyScanOptions(fmt) ==
  [bytesPerPixel |-> 4, pixelOrder |-> getPixelOrderFromFormat(fmt), blackThreshold |-> 72,
   minCoverageRatio |-> Ratio(1, 50), sampleStep |-> 1]

\* computeHorizontalBounds of the ArkTS file: the same two scans, no argument
\* checks
harmonyComputeHorizontalBounds(buffer, width, height, o) ==
  LET minHits == minHitsOf(height, o.minCoverageRatio)
      left == scanFromLeft(buffer, width, height, 0, minHits, o)
      right == scanRight(buffer, width, height, left, minHits, o)
  IN IF left >= width \/ right < 0 \/ right < left
     THEN [kind |-> "bounds", left |-> 0, right |-> width - 1]
     ELSE [kind |-> "bounds", left |-> left, right |-> right]

\* cropHorizontalBuffer of the ArkTS file, on a buffer of the image's size
harmonyCropHorizontalBuffer(buffer, width, height, left, right, bytesPerPixel) ==
  LET cropWidth == Max(0, right - left + 1)
      out == zeros(cropWidth * height * bytesPerPixel)
  IN IF cropWidth = 0 \/ width = 0 \/ height = 0
     THEN Image(out, cropWidth, height)
     ELSE Image(copyRows(buffer, out, width, height, left, cropWidth, bytesPerPixel, 0),
                cropWidth, height)

\* cropPixelMapHorizontally: cropSync crops the PixelMap in place and returns
\* nothing; createSubPixelMap and the manual fallback give a new PixelMap
cropPixelMapHorizontally(pm, left, right, e, newId) ==
  LET width == pm.width
      height == pm.height
      c == harmonyCropHorizontalBuffer(pm.bytes, width, height, left, right, 4)
  IN CASE e.crop = "cropSync" ->
            [returned |-> None,
             pixelMap |-> PixelMap(pm.id, c.buffer, c.width, c.height, pm.pixelFormat),
             reads |-> 0]
       [] e.crop = "createSubPixelMap" ->
            [returned |-> PixelMap(newId, c.buffer, c.width, c.height, pm.pixelFormat),
             pixelMap |-> pm, reads |-> 0]
       [] OTHER ->
            [returned |-> PixelMap(newId, c.buffer, c.width, c.height, pm.pixelFormat),
             pixelMap |-> pm, reads |-> 1]

\* the bounds dealWithCodel128 detects once it has read the pixels
harmonyDetect(pm) ==
  harmonyComputeHorizontalBounds(pm.bytes, pm.width, pm.height,
                                 harmonyScanOptions(pm.pixelFormat))

\* dealWithCodel128: the PixelMap returned, the bounds detected (None when the
\* scan is not reached) and the number of pixel reads
harmonyDealWithCodel128(pm, opt, e, newId) ==
  IF ~shouldTrimForCode128(opt, e)
  THEN [pixelMap |-> pm, detected |-> None, reads |-> 0]
  ELSE IF pm.width <= 0 \/ pm.height <= 0
  THEN [pixelMap |-> pm, detected |-> None, reads |-> 0]
  ELSE LET b == harmonyDetect(pm)
       IN IF b.left <= 0 /\ b.right >= pm.width - 1
          THEN [pixelMap |-> pm, detected |-> b, reads |-> 1]
          ELSE LET c == cropPixelMapHorizontally(pm, b.left, b.right, e, newId)
               IN [pixelMap |-> IF c.returned = None THEN c.pixelMap ELSE c.returned,
                   detected |-> b, reads |-> 1 + c.reads]

----------------------------------------------------------------------------
(* Calls of the two dealWithCodel128 on images of any declared format *)

\* a picture is a sequence of [r, g, b, a] pixels, stored in a channel layout
Colours ==
  {[r |-> 0, g |-> 0, b |-> 0, a |-> 255], [r |-> 255, g |-> 255, b |-> 255, a |-> 255],
   [r |-> 0, g |-> 0, b |-> 255, a |-> 255]}

PixelFormats == {"RGBA_8888", "BGRA_8888", "ARGB_8888", "RGB_565"}

encodePixel(c, fmt) ==
  CASE fmt = "BGRA_8888" -> <<c.b, c.g, c.r, c.a>>
    [] fmt = "ARGB_8888" -> <<c.a, c.r, c.g, c.b>>
    [] OTHER -> <<c.r, c.g, c.b, c.a>>

RECURSIVE encodePicture(_, _, _)
encodePicture(p, n, fmt) ==
  IF n = 0 THEN << >> ELSE encodePicture(p, n - 1, fmt) \o encodePixel(p[n], fmt)

DealScanTypes ==
  {Num(CODE128_CODE), Num(0), Str(<<99, 111, 100, 101, 49, 50, 56>>),
   Str(<<67, 79, 68, 69, 95, 49, 50, 56, 95, 88>>), Str(<<81, 82>>)}

Hosts == [scanCore : BOOLEAN, crop : {"cropSync", "createSubPixelMap", "manual"}]

InitDeal ==
  /\ pc = "s_created"
  /\ EncoderIdle
  /\ TrimIdle
  /\ StepIdle
  /\ synth = None
  /\ outcome = "none"
  /\ processed = None
  /\ pixelReads = 0
  /\ detected = None
  /\ option \in [scanType : DealScanTypes]
  /\ \E s \in Sizes, fmt \in PixelFormats :
       \E p \in [1..(s[1] * s[2]) -> Colours] :
         pixelMap = PixelMap(1, encodePicture(p, s[1] * s[2], fmt), s[1], s[2], fmt)
  /\ \/ impl = "trim" /\ env = None
     \/ impl = "harmony" /\ env \in Hosts

\* dealWithCodel128 of src/harmony on the host env
HarmonyDealWithCodel128 ==
  /\ pc = "s_created" /\ impl = "harmony"
  /\ LET r == harmonyDealWithCodel128(pixelMap, option, env, pixelMap.id + 1)
     IN /\ processed' = r.pixelMap
        /\ detected' = r.detected
        /\ pixelReads' = r.reads
  /\ pc' = "s_returned"
  /\ UNCHANGED <<encVars, trimVars, stepVars, synth, option, pixelMap, outcome, impl, env>>

NextDeal == DealWithCodel128 \/ HarmonyDealWithCodel128

SpecDeal == InitDeal /\ [][NextDeal]_vars

----------------------------------------------------------------------------
(* Properties of the encoder *)

ParseDigit(c) == CHOOSE d \in 0..15 : HexDigits[d + 1] = c

RECURSIVE ParseIn(_, _)
ParseIn(s, base) ==
  IF s = << >> THEN 0
  ELSE ParseIn(SubSeq(s, 1, Len(s) - 1), base) * base + ParseDigit(s[Len(s)])

RECURSIVE SumSeq(_)
SumSeq(s) == IF s = << >> THEN 0 ELSE Head(s) + SumSeq(Tail(s))

\* sum over i = 1..n of (cp(t[i]) - 32) * i
RECURSIVE WeightedSum(_, _)
WeightedSum(t, n) == IF n = 0 THEN 0 ELSE WeightedSum(t, n - 1) + (t[n] - 32) * n

BadIndices(t) == {i \in 0..(Len(t) - 1) : t[i + 1] < 32 \/ t[i + 1] > 126}
FirstBad(t) == CHOOSE i \in BadIndices(t) : \A j \in BadIndices(t) : i <= j

\* number of modules before the s-th symbol, by the lengths in the table
RECURSIVE SymbolOffset(_, _)
SymbolOffset(cs, s) ==
  IF s = 1 THEN 0 ELSE SymbolOffset(cs, s - 1) + Len(CODE128_PATTERNS[cs[s - 1] + 1])

\* C1: for a text of n characters all in 32..126, computeCodesForSetB returns
\* 104, then cp - 32 of every character in order, then the checksum
\* (104 + sum of (cp - 32) * position) mod 103, which is in 0..102, then 106:
\* n + 3 codes that are a function of the text alone.
C1_EncodedSymbol ==
  pc \in {"encoded", "expanded", "rendered"} =>
    LET n == Len(text)
    IN /\ BadIndices(text) = {}
       /\ Len(codes) = n + 3
       /\ codes[1] = 104
       /\ \A i \in 1..n : codes[i + 1] = text[i] - 32
       /\ codes[n + 2] = (104 + WeightedSum(text, n)) % 103
       /\ codes[n + 2] \in 0..102
       /\ codes[n + 3] = 106

C1_Witness ==
  /\ pc = "encoded"
  /\ Len(text) >= 2
  /\ 104 + WeightedSum(text, Len(text)) >= 206

\* C2: the call fails exactly when some character is outside 32..126; the
\* error then names the smallest such index and the code unit there, and
\* neither codes, modules nor markup exist; a valid text never fails, so the
\* PatternNotFound error is never raised.
C2_FailsIffUnsupported ==
  /\ error.kind # "PatternNotFound"
  /\ (pc # "start" /\ BadIndices(text) # {}) <=> pc = "failed"
  /\ pc = "failed" =>
       /\ error.kind = "UnsupportedCharacter"
       /\ ParseIn(error.index, 10) = FirstBad(text)
       /\ ParseIn(error.codePoint, 16) = text[FirstBad(text) + 1]
       /\ codes = << >> /\ modules = << >> /\ svg = None
  /\ pc \in {"validated", "encoded", "expanded", "rendered"} => error = NoError

C2_Witness ==
  /\ pc = "failed"
  /\ FirstBad(text) > 0
  /\ Cardinality(BadIndices(text)) >= 2

\* C3: the modules of a valid text are the table patterns of its codes in
\* order: widths in 1..4, 6 * (n + 2) + 7 of them, every symbol starting at
\* an even offset (a bar, and drawn as one), the last seven being 2331112.
C3_ModuleSequence ==
  pc \in {"expanded", "rendered"} =>
    LET n == Len(text)
        m == Len(modules)
    IN /\ m = 6 * (n + 2) + 7
       /\ \A k \in 1..m : modules[k] \in 1..4
       /\ \A s \in 1..Len(codes) :
            LET off == SymbolOffset(codes, s)
                pattern == CODE128_PATTERNS[codes[s] + 1]
            IN /\ off % 2 = 0
               /\ \A j \in 1..Len(pattern) :
                    HexDigits[modules[off + j] + 1] = pattern[j]
               /\ pc = "rendered" =>
                    \E r \in 1..Len(svg.svgBars) :
                      /\ ParseIn(svg.svgBars[r].x, 10) =
                           (options.quietZone + SumSeq(SubSeq(modules, 1, off)))
                             * options.moduleWidth
                      /\ ParseIn(svg.svgBars[r].width, 10) =
                           modules[off + 1] * options.moduleWidth
       /\ SubSeq(modules, m - 6, m) = <<2, 3, 3, 1, 1, 1, 2>>

C3_Witness ==
  /\ pc = "rendered"
  /\ Len(text) >= 2
  /\ Len(modules) = 6 * (Len(text) + 2) + 7

\* C4: the declared width of the markup is (sum of the modules + 2 *
\* quietZone) * moduleWidth, the first bar is at quietZone * moduleWidth and
\* the walk ends at the declared width less quietZone * moduleWidth.
C4_RenderedWidth ==
  pc = "rendered" =>
    LET widthPx == ParseIn(svg.width, 10)
    IN /\ widthPx = (SumSeq(modules) + 2 * options.quietZone) * options.moduleWidth
       /\ svg.viewBox[3] = svg.width
       /\ ParseIn(svg.svgBars[1].x, 10) = options.quietZone * options.moduleWidth
       /\ x = widthPx - options.quietZone * options.moduleWidth

C4_Witness ==
  /\ pc = "rendered"
  /\ options.quietZone >= 1
  /\ options.moduleWidth >= 2
  /\ Len(text) >= 1

----------------------------------------------------------------------------
(* Properties of the trim pipeline *)

\* the pixel at column c, row y of a 4-byte-per-pixel image is inked
WellSized(im, bpp) == Len(im.buffer) = im.width * im.height * bpp

InkedPixel(im, c, y, o) ==
  LET base == (y * im.width + c) * 4
      red == im.buffer[base + (IF o.pixelOrder = "BGRA" THEN 3 ELSE 1)]
      green == im.buffer[base + 2]
      blue == im.buffer[base + (IF o.pixelOrder = "BGRA" THEN 1 ELSE 3)]
      alpha == im.buffer[base + 4]
  IN alpha >= 16 /\ (54 * red + 183 * green + 19 * blue) \div 256 <= o.blackThreshold

SampledRows(im, o) == {y \in 0..(im.height - 1) : y % o.sampleStep = 0}

MinHits(im, o) ==
  LET exact == (im.height * o.minCoverageRatio.num) \div o.minCoverageRatio.den
  IN IF exact >= 1 THEN exact ELSE 1

InkedColumn(im, c, o) ==
  Cardinality({y \in SampledRows(im, o) : InkedPixel(im, c, y, o)}) >= MinHits(im, o)

InkedColumns(im, o) == {c \in 0..(im.width - 1) : InkedColumn(im, c, o)}

IsBand(im, L, R) ==
  /\ 0 <= L /\ L <= R /\ R < im.width
  /\ im.height >= 1
  /\ im.buffer = BandBuffer(im.width, im.height, L, R)

ScanParametersInRange(o) ==
  /\ o.bytesPerPixel = 4
  /\ o.blackThreshold \in 0..255
  /\ 0 <= o.minCoverageRatio.num /\ o.minCoverageRatio.num <= o.minCoverageRatio.den
  /\ o.sampleStep >= 1

\* C5 as stated: a full-height black band in columns L..R on white gives
\* bounds {L, R} under every scan-parameter setting.
C5_BandBoundsAnyParameters ==
  (pc = "t_scanned" /\ ScanParametersInRange(scanOpts)) =>
    \A L, R \in 0..(img.width - 1) :
      IsBand(img, L, R) => bounds = [kind |-> "bounds", left |-> L, right |-> R]

\* C5, amended: the band gives bounds {L, R} when blackThreshold is below 255
\* (opaque white has luminance 255) and the rows sampled at stride sampleStep,
\* ceil(height / sampleStep) of them, are at least minHits.
C5_BandBounds ==
  (/\ pc = "t_scanned"
   /\ ScanParametersInRange(scanOpts)
   /\ scanOpts.blackThreshold < 255
   /\ Cardinality(SampledRows(img, scanOpts)) >= MinHits(img, scanOpts)) =>
    \A L, R \in 0..(img.width - 1) :
      IsBand(img, L, R) => bounds = [kind |-> "bounds", left |-> L, right |-> R]

C5_Witness ==
  /\ pc = "t_scanned"
  /\ scanOpts.blackThreshold = 254
  /\ scanOpts.sampleStep = 2
  /\ img.height = 2
  /\ IsBand(img, 1, 1)
  /\ img.width = 3
  /\ bounds = [kind |-> "bounds", left |-> 1, right |-> 1]

\* C6: for width, height >= 1 the bounds satisfy 0 <= left <= right < width,
\* and they are {0, width - 1} when no column is inked.
C6_BoundsInRange ==
  (pc \in {"t_scanned", "t_trimmed", "t_rescanned", "t_retrimmed"}
     /\ img.width >= 1 /\ img.height >= 1 /\ WellSized(img, 4)) =>
    /\ bounds.kind = "bounds"
    /\ 0 <= bounds.left /\ bounds.left <= bounds.right /\ bounds.right < img.width
    /\ InkedColumns(img, scanOpts) = {} =>
         bounds = [kind |-> "bounds", left |-> 0, right |-> img.width - 1]

C6_Witness ==
  /\ pc = "t_scanned"
  /\ img.width = 3
  /\ InkedColumns(img, scanOpts) = {}
  /\ \E c \in 0..2, y \in 0..(img.height - 1) : InkedPixel(img, c, y, scanOpts)
  /\ bounds = [kind |-> "bounds", left |-> 0, right |-> 2]

CropWidth == cropArgs.right - cropArgs.left + 1

\* C7: with 0 <= L <= R < width the crop has width R - L + 1, the same
\* height, (R - L + 1) * height * bpp bytes, row y being source bytes
\* [(y * width + L) * bpp, (y * width + R + 1) * bpp); the source is unchanged.
C7_CropCopiesRows ==
  (/\ pc \in {"t_cropped", "t_trimmed"}
   /\ WellSized(img, scanOpts.bytesPerPixel)
   /\ 0 <= cropArgs.left /\ cropArgs.left <= cropArgs.right
   /\ cropArgs.right < img.width) =>
    LET bpp == scanOpts.bytesPerPixel
        rowBytes == CropWidth * bpp
    IN /\ cropped.width = CropWidth
       /\ cropped.height = img.height
       /\ Len(cropped.buffer) = CropWidth * img.height * bpp
       /\ \A y \in 0..(img.height - 1) :
            SubSeq(cropped.buffer, y * rowBytes + 1, (y + 1) * rowBytes)
              = SubSeq(img.buffer, (y * img.width + cropArgs.left) * bpp + 1,
                       (y * img.width + cropArgs.right + 1) * bpp)
       /\ srcView = img.buffer

C7_Witness ==
  /\ pc = "t_cropped"
  /\ img.height = 2 /\ img.width = 3
  /\ scanOpts.bytesPerPixel = 3
  /\ cropArgs = [left |-> 1, right |-> 2]
  /\ Len(cropped.buffer) = 12

\* C8 as stated: when cropWidth <= 0 or cropWidth equals the width, the
\* result has the original width, height and bytes.
C8_DegenerateReturnsOriginal ==
  (pc \in {"t_cropped", "t_trimmed"} /\ (CropWidth <= 0 \/ CropWidth = img.width)) =>
    cropped = img

\* C8, amended: when cropWidth <= 0 the result is an empty buffer of width 0
\* and the original height; when left = 0 and right = width - 1 it has the
\* original width, height and bytes.
C8_DegenerateCrop ==
  pc \in {"t_cropped", "t_trimmed"} =>
    /\ CropWidth <= 0 =>
         cropped = Image(<< >>, 0, img.height)
    /\ (/\ WellSized(img, scanOpts.bytesPerPixel)
        /\ cropArgs.left = 0 /\ cropArgs.right = img.width - 1) =>
         cropped = img

C8_Witness ==
  /\ pc = "t_cropped"
  /\ cropArgs = [left |-> 2, right |-> 0]
  /\ img.height = 2 /\ img.width = 3
  /\ cropped.width = 0

\* C9: the image trimmed at its computed bounds scans to its own full
\* bounds {0, width - 1}, and cropping it at those bounds changes nothing.
C9_TrimIdempotent ==
  (pc \in {"t_rescanned", "t_retrimmed"} /\ img.width >= 1 /\ img.height >= 1
     /\ WellSized(img, 4)) =>
    /\ bounds2 = [kind |-> "bounds", left |-> 0, right |-> cropped.width - 1]
    /\ pc = "t_retrimmed" => cropped2 = cropped

C9_Witness ==
  /\ pc = "t_retrimmed"
  /\ img.width = 3
  /\ cropped.width = 2
  /\ bounds.left = 1
  /\ cropped2 = cropped

----------------------------------------------------------------------------
(* Properties of the PixelMap trimming *)

\* C10: dealWithCodel128 with scanType CODE128_CODE on a synthetic image
\* (white margins, stripes of barWidth columns between them, black first)
\* returns an image of width totalWidth - leftMargin - rightMargin and the
\* same height.
C10_SyntheticTrimsToInkWidth ==
  (/\ pc \in {"s_returned", "s_done"}
   /\ option.scanType = Num(CODE128_CODE)
   /\ synth.leftMargin + synth.rightMargin < synth.totalWidth) =>
    /\ processed.width = synth.totalWidth - synth.leftMargin - synth.rightMargin
    /\ processed.height = synth.height

\* C11 as stated: no call of computeHorizontalBounds or cropHorizontalBuffer,
\* whatever the buffer, sizes, bounds, bytesPerPixel and scan parameters,
\* ends in an error.
C11_NeverRaisesAnyInput == pc # "t_failed"

\* C11, amended: computeHorizontalBounds with bytesPerPixel = 4 and
\* cropHorizontalBuffer with bytesPerPixel >= 0 always return a value, for
\* any buffer length, width and height >= 0 and any bounds; an empty image
\* scans to {0, 0} and an empty crop is a zero-width image.
C11_NeverRaises ==
  /\ (call = "trim" /\ scanOpts.bytesPerPixel = 4 /\ pc # "t_start") =>
       /\ pc # "t_failed"
       /\ bounds.kind = "bounds"
       /\ (img.width = 0 \/ img.height = 0) =>
            bounds = [kind |-> "bounds", left |-> 0, right |-> 0]
  /\ (call = "crop" /\ scanOpts.bytesPerPixel >= 0 /\ pc # "t_start") =>
       /\ pc = "t_cropped"
       /\ CropWidth <= 0 => cropped.width = 0

C11_Witness ==
  /\ pc = "t_cropped"
  /\ img.width = 2 /\ img.height = 2
  /\ Len(img.buffer) = 15
  /\ scanOpts.bytesPerPixel = 4
  /\ cropArgs = [left |-> -1, right |-> 2]
  /\ cropped.width = 4

----------------------------------------------------------------------------
(* Properties of the two dealWithCodel128 *)

\* red, green, blue and alpha of the pixel at byte index k in the declared
\* layout: RGBA, BGRA or ARGB, anything else RGBA
ChannelsOf(bytes, k, fmt) ==
  CASE fmt = "BGRA_8888" -> <<bytes[k + 3], bytes[k + 2], bytes[k + 1], bytes[k + 4]>>
    [] fmt = "ARGB_8888" -> <<bytes[k + 2], bytes[k + 3], bytes[k + 4], bytes[k + 1]>>
    [] OTHER -> <<bytes[k + 1], bytes[k + 2], bytes[k + 3], bytes[k + 4]>>

RECURSIVE ToRGBA(_, _, _)
ToRGBA(bytes, n, fmt) ==
  IF n = 0 THEN << >> ELSE ToRGBA(bytes, n - 1, fmt) \o ChannelsOf(bytes, 4 * (n - 1), fmt)

\* the same picture stored as RGBA and declared RGBA
AsRGBA(pm) ==
  PixelMap(pm.id, ToRGBA(pm.bytes, pm.width * pm.height, pm.pixelFormat), pm.width,
           pm.height, "RGBA_8888")

InkedBy(pm, k) ==
  IF impl = "trim"
  THEN isBlackPixel(pm.bytes, k, getChannelOffsets(pm.pixelFormat), 48)
  ELSE isBlackAtIndex(pm.bytes, k, harmonyScanOptions(pm.pixelFormat))

DetectedBy(pm) == IF impl = "trim" THEN trimDetect(pm) ELSE harmonyDetect(pm)

Scanned == pc = "s_returned" /\ pixelReads >= 1

\* C12: in each declared layout (RGBA, BGRA, ARGB; anything else is RGBA) the
\* detection classifies every pixel as it classifies the same picture stored as
\* RGBA, and finds the same horizontal bounds
C12_LayoutsAgree ==
  Scanned =>
    /\ \A p \in 0..(pixelMap.width * pixelMap.height - 1) :
         InkedBy(pixelMap, 4 * p) <=> InkedBy(AsRGBA(pixelMap), 4 * p)
    /\ detected = DetectedBy(AsRGBA(pixelMap))

FullWidthOrNone(b, width) ==
  IF b = None THEN TRUE ELSE b.left <= 0 /\ b.right >= width - 1

\* C13: dealWithCodel128 acts only when option.scanType is CODE128_CODE: for any
\* other scanType it returns the handle it was given, reads no pixels and
\* creates no image; for CODE128_CODE it returns the given handle when no bounds
\* are found or they span the full width, and otherwise a new handle of width
\* right - left + 1 and the original height
C13_OnlyActsOnCode128 ==
  pc = "s_returned" =>
    /\ option.scanType # Num(CODE128_CODE) => processed = pixelMap /\ pixelReads = 0
    /\ option.scanType = Num(CODE128_CODE) =>
         IF FullWidthOrNone(detected, pixelMap.width)
         THEN processed = pixelMap
         ELSE /\ processed.id # pixelMap.id
              /\ processed.width = detected.right - detected.left + 1
              /\ processed.height = pixelMap.height

----------------------------------------------------------------------------
(* Properties of the step-by-step scan *)

LeftPass == pc \in {"c_left", "c_left_row", "c_left_after"}
RightPass == pc \in {"c_right", "c_right_row", "c_right_after"}
AfterLeftPass == RightPass \/ pc \in {"c_right_start", "c_return", "c_done"}

\* the first inked column, the width when there is none
FirstInked(im, o) ==
  IF InkedColumns(im, o) = {} THEN im.width
  ELSE CHOOSE c \in InkedColumns(im, o) : \A d \in InkedColumns(im, o) : c <= d

\* the left pass examines columns in increasing order, none of them after an
\* inked one, and ends at the first inked column
LeftToRight ==
  /\ LeftPass => /\ sLeft <= FirstInked(img, scanOpts)
                 /\ pc = "c_left_row" => sLeft < img.width
  /\ AfterLeftPass => sLeft = FirstInked(img, scanOpts)

LeftPassOrder == [][LeftPass => sLeft' \in {sLeft, sLeft + 1}]_vars

\* the right pass examines columns in decreasing order, none below left, and
\* left is settled before it starts
RightToLeft == pc = "c_right_row" => sLeft <= sRight /\ sRight < img.width

RightPassOrder ==
  [][RightPass => sLeft' = sLeft /\ sRight' \in {sRight, sRight - 1} /\ ~LeftPass']_vars

\* a row scan goes on only while the hit count is below minHits
RowScanStops ==
  /\ pc \in {"c_left_row", "c_right_row"} => sHits < MinHits(img, scanOpts)
  /\ pc \in {"c_left_after", "c_right_after"} => sHits <= MinHits(img, scanOpts)

\* when the left pass found an inked column the right pass ends at or after it
RightStopsAtLeft ==
  /\ (pc \in {"c_return", "c_done"} /\ InkedColumns(img, scanOpts) # {}) => sRight >= sLeft
  /\ (pc = "c_done" /\ InkedColumns(img, scanOpts) # {}) =>
       bounds = [kind |-> "bounds", left |-> sLeft, right |-> sRight]
  /\ (pc = "c_done" /\ InkedColumns(img, scanOpts) = {}) => sRight < sLeft

\* C14: on a buffer with width, height >= 1 and sampleStep >= 1 a run of
\* computeHorizontalBounds terminates; columns are examined left to right up to
\* the first inked column, only then right to left and never below left; a row
\* scan stops as soon as the hit count reaches minHits; and when the left pass
\* found an inked column the right pass stops at a column >= left
C14_ScanOrder ==
  /\ <>(pc = "c_done")
  /\ [](LeftToRight /\ RightToLeft /\ RowScanStops /\ RightStopsAtLeft)
  /\ LeftPassOrder
  /\ RightPassOrder

\* a run that trimmed a margin on each side of a two-row image and returned
C14_Witness ==
  /\ pc = "c_done" /\ img.width = 3 /\ img.height = 2
  /\ MinHits(img, scanOpts) = 2
  /\ bounds = [kind |-> "bounds", left |-> 1, right |-> 1]

====
